---- MODULE Spec2Model ----
(***************************************************************************)
(* HEALOPS CI/CD healing agent: the run-orchestration graph of             *)
(* src/agent/graph/agent_graph.py and the nodes it dispatches to.          *)
(*                                                                         *)
(* One run of the pipeline is modelled.  `state` is the AgentState dict    *)
(* threaded through the nodes; `pc` is the node the graph executes next    *)
(* (conditional edges are evaluated on the state the node returned, in     *)
(* the same step); `wc` is the cloned working copy on disk.                *)
(*                                                                         *)
(* Abstractions: file contents are compared modulo surrounding whitespace  *)
(* by the code (`.strip()`), so a content is represented by its stripped   *)
(* body; a fix record keeps `file`, `status` and the branch that wrote     *)
(* its commit message (`msg`), not bug_type / line_number; `logs` and      *)
(* `current_step` are display-only and are left out.                       *)
(***************************************************************************)
EXTENDS Integers, Sequences, FiniteSets, TLC

\* ---------------------------------------------------------------- bounds
\* Number of source files of the repository that can show up in failures.
MaxFiles == 1
\* File bodies are 0..MaxBody.
MaxBody == 1

\* Upper bound on the test files one test_generator_node pass writes.
MaxGenerated == 1

\* The environment answers freely during the first MaxEventful iterations;
\* in later iterations it keeps only its terminal answers (tests pass, CI
\* passes, the push fails) and one canonical non-terminal answer per input.
MaxEventful == 2

\* Commit counts handed to ScoreBreakdown.calculate: 0..MaxCommitCount, past
\* the 20 commits that carry no penalty.
MaxCommitCount == 25

\* Runs a server process has accepted side by side.
MaxRuns == 2

\* ------------------------------------------------------ program constants
MAX_ITERATIONS == 5
MAX_NO_DIFF_RETRIES == 2

\* Relative paths of the repository's source files.
FileNames == <<"utils.py", "app.py", "core.py", "misc.py">>
Files == {FileNames[i] : i \in 1..MaxFiles}
Bodies == 0..MaxBody
\* wc[f] = Absent: the path does not exist in the working copy.
Absent == -1

VARIABLES
    pc,          \* next node of the graph; "RAISED" when a node raised, "DONE"
                 \* when the pipeline task ended, "CANCELLED" when it was
                 \* cancelled
    state,       \* the AgentState dict
    wc,          \* working copy: file -> body or Absent
    cfg,         \* config scaffolding present in the working copy
    no_workflow, \* this run's repo:branch key is in _NO_WORKFLOW_REPOS
    attempt,     \* per file: what the last fix_generator_node pass did with it
    raised_in,   \* node whose exception ended the run, "" if none
    prev,        \* the node that executed last, "" before the first
    status,      \* `status` of the run record in db.runresults
    results,     \* `results` of the run record, NoResults until saved
    api,         \* the answer to the last API request on this run id
    calc,        \* a function of the program with its arguments and, once
                 \* called, its value (PureSpec)
    runs         \* the runs of one server process side by side (RunsSpec)

vars == <<pc, state, wc, cfg, no_workflow, attempt, raised_in, prev, status, results, api,
          calc, runs>>

Eventful(s) == s.iteration <= MaxEventful

\* pytest exit codes; -1 is run_tests' timeout / exception / unknown framework
ReturnCodes == {0, 1, 2, 3, 4, 5, -1}
ReturnCodesAt(s) == IF Eventful(s) THEN ReturnCodes ELSE {0, 1}

\* EXIT_CODE_CLASS with the runner's own failure signal (-1) classed as a
\* test failure.
EXIT_CODE_CLASS_timeout_as_failure(rc) ==
    CASE rc = 0 -> "PASSED"
      [] rc = 1 -> "TESTS_FAILED"
      [] rc = 2 -> "INTERRUPTED"
      [] rc = 3 -> "INTERNAL_ERROR"
      [] rc = 4 -> "COLLECTION_ERROR"
      [] rc = 5 -> "NO_TESTS_COLLECTED"
      [] rc = -1 -> "TESTS_FAILED"
      [] OTHER  -> "UNKNOWN_EXIT"

EXIT_CODE_CLASS(rc) ==
    CASE rc = 0 -> "PASSED"
      [] rc = 1 -> "TESTS_FAILED"
      [] rc = 2 -> "INTERRUPTED"
      [] rc = 3 -> "INTERNAL_ERROR"
      [] rc = 4 -> "COLLECTION_ERROR"
      [] rc = 5 -> "NO_TESTS_COLLECTED"
      [] OTHER  -> "UNKNOWN_EXIT"

NoAttempts == [f \in Files |-> [did |-> "none", prior |-> 0]]

initial_state(auto_commit) ==
    [ auto_commit         |-> auto_commit,
      iteration           |-> 1,
      returncode          |-> -1,
      test_exit_class     |-> "",
      failures            |-> << >>,
      fixes_applied       |-> << >>,
      files_failed_before |-> {},
      no_diff_counts      |-> [f \in Files |-> 0],
      commit_count        |-> 0,
      push_succeeded      |-> FALSE,
      ci_cd_timeline      |-> << >>,
      ci_cd_status        |-> "PENDING",
      error_message       |-> "",
      config_fix_changed  |-> FALSE,
      tests_generated     |-> FALSE ]

\* main.py run_agent: the run record is inserted with results None.
NoResults == [saved |-> FALSE]

\* No API request on this run id was answered yet.
NoRequest == [op |-> "none", approve |-> FALSE, code |-> 0, cancelled |-> FALSE]

\* No function call is being looked at.
NoCalc == [fn |-> "none", done |-> FALSE]

\* Run slots of the server process; run_id 0: no request was made on the slot.
Slots == 1..MaxRuns
NoRuns ==
    [ run     |-> [i \in Slots |-> [run_id |-> 0, pc |-> "none", repo_local_path |-> << >>]],
      threads |-> {},
      dirs    |-> {} ]

Init ==
    /\ pc = "clone_repo"
    /\ \E auto_commit \in BOOLEAN : state = initial_state(auto_commit)
    /\ wc = [f \in Files |-> Absent]
    /\ cfg = {}
    /\ no_workflow = FALSE
    /\ attempt = NoAttempts
    /\ raised_in = ""
    /\ prev = ""
    /\ status = "RUNNING"
    /\ results = NoResults
    /\ api = NoRequest
    /\ calc = NoCalc
    /\ runs = NoRuns

\* main.py run_agent_pipeline, body of `async for state in astream(...)`: the
\* state a node returned is streamed and the run record set to RUNNING; a
\* node that raised streams nothing.
stream_update ==
    /\ prev' = pc
    /\ status' = IF pc' = "RAISED" THEN status ELSE "RUNNING"
    /\ UNCHANGED <<results, api, calc, runs>>

\* What config_fix_node looks for: pytest.ini, the test deps in
\* requirements.txt, and a non-stub <app>/tests.py.
ConfigFiles == {"pytest.ini", "requirements.txt", "app/tests.py"}

\* Injective sequences over S: the lists `list(files)` can produce from a set.
DistinctSeqs(S) ==
    { q \in UNION { [1..n -> S] : n \in 0..Cardinality(S) } :
        \A i, j \in DOMAIN q : i # j => q[i] # q[j] }

Present == { f \in Files : wc[f] # Absent }

\* ------------------------------------------------------------ routers

\* The router with the PASSED edge wired back to run_tests.
has_fixable_failures_rerun(s) ==
    IF s.test_exit_class = "PASSED" THEN "run_tests"
    ELSE IF Len(s.failures) = 0
         THEN IF s.test_exit_class \in {"COLLECTION_ERROR", "NO_TESTS_COLLECTED"}
              THEN "apply_config_fix"
              ELSE IF ~s.tests_generated THEN "apply_config_fix"
                   ELSE "finalize"
         ELSE "generate_fixes"

\* The router sending every failed run without a config fault to
\* generate_fixes, with or without extracted failures.
has_fixable_failures_best_effort(s) ==
    IF s.test_exit_class = "PASSED" THEN "finalize"
    ELSE IF Len(s.failures) = 0
              /\ s.test_exit_class \in {"COLLECTION_ERROR", "NO_TESTS_COLLECTED"}
         THEN "apply_config_fix"
         ELSE "generate_fixes"

\* The router looking at tests_generated before the exit class.
has_fixable_failures_generated_first(s) ==
    IF s.test_exit_class = "PASSED" THEN "finalize"
    ELSE IF Len(s.failures) = 0
         THEN IF ~s.tests_generated THEN "apply_config_fix" ELSE "finalize"
         ELSE "generate_fixes"

\* The router giving up on a run whose extracted failures are all blacklisted.
has_fixable_failures_skipping_blacklisted(s) ==
    IF s.test_exit_class = "PASSED" THEN "finalize"
    ELSE IF Len(s.failures) = 0
         THEN IF s.test_exit_class \in {"COLLECTION_ERROR", "NO_TESTS_COLLECTED"}
              THEN "apply_config_fix"
              ELSE IF ~s.tests_generated THEN "apply_config_fix"
                   ELSE "finalize"
         ELSE IF \A i \in DOMAIN s.failures : s.failures[i] \in s.files_failed_before
              THEN "finalize"
              ELSE "generate_fixes"

\* agent_graph.py: conditional edge after analyze_failures
has_fixable_failures(s) ==
    IF s.test_exit_class = "PASSED" THEN "finalize"
    ELSE IF Len(s.failures) = 0
         THEN IF s.test_exit_class \in {"COLLECTION_ERROR", "NO_TESTS_COLLECTED"}
              THEN "apply_config_fix"
              ELSE IF ~s.tests_generated THEN "apply_config_fix"
                   ELSE "finalize"
         ELSE "generate_fixes"

\* The edge without the tests_generated case.
after_config_fix_changed_only(s) ==
    IF s.config_fix_changed THEN "reinstall_deps" ELSE "finalize"

\* agent_graph.py: conditional edge after apply_config_fix
after_config_fix(s) ==
    IF s.config_fix_changed THEN "reinstall_deps"
    ELSE IF ~s.tests_generated THEN "reinstall_deps"
         ELSE "finalize"

\* agent_graph.py: conditional edge after reinstall_deps
should_generate_tests(s) ==
    IF s.tests_generated THEN "commit_and_push" ELSE "generate_tests"

\* agent_graph.py: conditional edge after commit_and_push
should_monitor_cicd(s) ==
    IF s.push_succeeded THEN "monitor_cicd" ELSE "skip_cicd"

\* should_retry without the CI-passed trigger.
should_retry_ignoring_ci(s) ==
    IF s.error_message # "" THEN "finalize"
    ELSE IF s.iteration >= MAX_ITERATIONS THEN "finalize"
    ELSE "run_tests"

\* should_retry without the iteration budget.
should_retry_unbounded(s) ==
    IF s.error_message # "" THEN "finalize"
    ELSE IF s.ci_cd_status = "PASSED" THEN "finalize"
    ELSE "run_tests"

\* should_retry without the fatal-error check.
should_retry_ignoring_error(s) ==
    IF s.ci_cd_status = "PASSED" THEN "finalize"
    ELSE IF s.iteration >= MAX_ITERATIONS THEN "finalize"
    ELSE "run_tests"

\* retry_controller.py: conditional edge after monitor_cicd / skip_cicd
should_retry(s) ==
    IF s.error_message # "" THEN "finalize"
    ELSE IF s.ci_cd_status = "PASSED" THEN "finalize"
    ELSE IF s.iteration >= MAX_ITERATIONS THEN "finalize"
    ELSE "run_tests"

\* build_agent_graph: should_retry's "run_tests" label is wired to retry_increment
after_cicd(s) ==
    IF should_retry(s) = "run_tests" THEN "retry_increment" ELSE "finalize"

\* ------------------------------------------------- test generation

\* One fix record; `msg` names the branch that produced the commit message.
FixRecord(f, st, m) == [file |-> f, status |-> st, msg |-> m]

RECURSIVE GeneratedRecords(_)
GeneratedRecords(n) ==
    IF n = 0 THEN << >>
    ELSE Append(GeneratedRecords(n - 1),
                FixRecord("tests/test_generated.py", "Generated", "generate tests"))

\* test_generator_node starting its record list afresh.
test_generator_node_fresh_list(s, n) ==
    IF s.iteration > 1 THEN s
    ELSE [s EXCEPT !.fixes_applied = GeneratedRecords(n),
                   !.tests_generated = TRUE]

\* test_generator_agent.py: n is the number of test files the LLM produced
\* (0 when nothing is uncovered or every response was empty).  On iteration
\* > 1 the node only repairs generated tests named in `failures`; `failures`
\* holds source files only here, so that path returns the state as it is.
test_generator_node(s, n) ==
    IF s.iteration > 1 THEN s
    ELSE [s EXCEPT !.fixes_applied = s.fixes_applied \o GeneratedRecords(n),
                   !.tests_generated = TRUE]

\* ------------------------------------------------------- linear path

\* repo_clone_agent.py: clone_repo / create_branch_and_checkout are not
\* guarded, so a failed clone raises out of the node.
repo_clone_node ==
    /\ pc = "clone_repo"
    /\ \/ /\ wc' = [f \in Files |-> 0]
          /\ UNCHANGED cfg
          /\ pc' = "install_deps"
          /\ UNCHANGED raised_in
       \/ /\ pc' = "RAISED"
          /\ raised_in' = "clone_repo"
          /\ UNCHANGED <<wc, cfg>>
    /\ UNCHANGED <<state, no_workflow, attempt>>
    /\ stream_update

\* dep_install_agent.py: only logs / current_step change; installing may
\* leave untracked files (node_modules, caches) in the working copy.
dep_install_node ==
    /\ pc = "install_deps"
    /\ pc' = "discover_tests"
    /\ UNCHANGED <<state, wc, cfg, no_workflow, attempt, raised_in>>
    /\ stream_update

\* test_discovery_agent.py: without a detected framework the node calls
\* test_generator_node itself before returning.
test_discovery_node ==
    /\ pc = "discover_tests"
    /\ \/ UNCHANGED state
       \/ \E n \in 0..MaxGenerated : state' = test_generator_node(state, n)
    /\ pc' = "run_tests"
    /\ UNCHANGED <<wc, cfg, no_workflow, attempt, raised_in>>
    /\ stream_update

\* test_runner_agent.py
test_runner_node ==
    /\ pc = "run_tests"
    /\ \E rc \in ReturnCodesAt(state) :
         state' = [state EXCEPT !.returncode = rc,
                                !.test_exit_class = EXIT_CODE_CLASS(rc)]
    /\ pc' = "analyze_failures"
    /\ UNCHANGED <<wc, cfg, no_workflow, attempt, raised_in>>
    /\ stream_update

\* The lists of failing files the analysis can extract.
FailureListsAt(s) ==
    IF Eventful(s) THEN DistinctSeqs(Present)
    ELSE {q \in DistinctSeqs(Present) : Len(q) \in {0, Cardinality(Present)}}

\* code_analysis_agent.py: exit 4/5 short-circuits to no failures; otherwise
\* the failing files are distinct existing paths (possibly none).
code_analysis_node ==
    /\ pc = "analyze_failures"
    /\ \E fs \in FailureListsAt(state) :
         /\ (state.test_exit_class \in {"COLLECTION_ERROR", "NO_TESTS_COLLECTED"}
               \/ state.returncode = 0) => fs = << >>
         /\ state' = [state EXCEPT !.failures = fs]
         /\ pc' = has_fixable_failures(state')
    /\ UNCHANGED <<wc, cfg, no_workflow, attempt, raised_in>>
    /\ stream_update

\* ------------------------------------------------------ fix generation

\* One LLM exchange as the tools see it: the call failed on both models,
\* returned only whitespace, or returned some content.
LLMResponses ==
    [kind : {"error", "empty"}, body : {0}] \cup [kind : {"content"}, body : Bodies]

\* openrouter_tools.py generate_fix: the original content comes back when
\* the response is empty and when both models fail.
generate_fix(file_content, r) ==
    IF r.kind = "content" THEN r.body ELSE file_content

\* openrouter_tools.py generate_targeted_fix: same fall-backs; the patched
\* region is spliced into the original, giving some file content.
generate_targeted_fix(file_content, r) ==
    IF r.kind = "content" THEN r.body ELSE file_content

\* Inputs of one iteration of fix_generator_node's loop: whether the failure's
\* line_number is > 0, the two LLM exchanges, and whether writing the debug
\* file or the fixed file raises.
FixInputs ==
    [line_positive : BOOLEAN, tg : LLMResponses, ff : LLMResponses, io_error : BOOLEAN]

Failed == [kind |-> "error", body |-> 0]

\* The inputs of one loop iteration on a file with content file_content.
\* An answer the code never looks at (the LLM answers when the debug write
\* raises, the targeted answer when line_number <= 0 or when it only sends
\* the code to the fall-back, the fall-back answer when the targeted fix
\* changed the file) is fixed to `Failed`.  After the eventful iterations
\* the one answer left is a targeted fix that changes the file.
FixInputsAt(s, file_content) ==
    LET changed(in) == in.line_positive
                       /\ generate_targeted_fix(file_content, in.tg) # file_content
    IN { in \in FixInputs :
           /\ in.io_error => (~in.line_positive /\ in.ff = Failed)
           /\ ~changed(in) => in.tg = Failed
           /\ changed(in) => in.ff = Failed
           /\ ~Eventful(s) => changed(in) }

\* What one loop iteration did with file f: the branch taken (`did`) and the
\* no-diff counter it found (`prior`).
Attempt(did, prior) == [did |-> did, prior |-> prior]

\* The loop without its blacklist check.
skip_nothing(a, f) == FALSE

\* fix_generator_agent.py: `if file_path in files_failed_before: continue`
skip_blacklisted(a, f) == f \in a.files_failed_before

\* fix_generator_agent.py: the `not os.path.exists(full_path)` branch
file_not_found(a, f) ==
    [a EXCEPT !.fixes_applied = Append(@, FixRecord(f, "Failed", "could not find")),
              !.files_failed_before = @ \cup {f},
              !.attempt[f] = Attempt("not_found", a.no_diff_counts[f])]

\* fix_generator_agent.py: the `except Exception` branch of one loop iteration
fix_exception(a, f) ==
    [a EXCEPT !.fixes_applied = Append(@, FixRecord(f, "Failed", "error generating fix")),
              !.attempt[f] = Attempt("exception", a.no_diff_counts[f])]

\* The apply branch without the counter reset.
apply_fix_keeping_count(a, f, fixed_content) ==
    [a EXCEPT !.wc[f] = fixed_content,
              !.fixes_applied = Append(@, FixRecord(f, "Fixed", "applied")),
              !.attempt[f] = Attempt("fixed", a.no_diff_counts[f])]

\* fix_generator_agent.py: "Apply the fix", the content differs
apply_fix(a, f, fixed_content) ==
    [a EXCEPT !.wc[f] = fixed_content,
              !.fixes_applied = Append(@, FixRecord(f, "Fixed", "applied")),
              !.no_diff_counts[f] = 0,
              !.attempt[f] = Attempt("fixed", a.no_diff_counts[f])]

\* The no-diff branch counting without ever blacklisting the file.
no_diff_never_blacklisting(a, f, why) ==
    LET prior_attempts == a.no_diff_counts[f]
        current_count  == prior_attempts + 1
    IN [a EXCEPT !.no_diff_counts[f] = current_count,
                 !.fixes_applied =
                      IF current_count >= MAX_NO_DIFF_RETRIES
                      THEN Append(@, FixRecord(f, "Failed", "no change generated"))
                      ELSE @,
                 !.attempt[f] = Attempt(why, prior_attempts)]

\* The no-diff branch reporting a failure on every attempt, not only at the
\* threshold.
no_diff_always_reporting(a, f, why) ==
    LET prior_attempts == a.no_diff_counts[f]
        current_count  == prior_attempts + 1
    IN [a EXCEPT !.no_diff_counts[f] = current_count,
                 !.fixes_applied =
                      Append(@, FixRecord(f, "Failed", "no change generated")),
                 !.files_failed_before =
                      IF current_count >= MAX_NO_DIFF_RETRIES THEN @ \cup {f} ELSE @,
                 !.attempt[f] = Attempt(why, prior_attempts)]

\* fix_generator_agent.py: "No diff produced"; `why` tells how the unchanged
\* content came about (the LLM call failed, answered nothing, or answered
\* the same content)
no_diff(a, f, why) ==
    LET prior_attempts == a.no_diff_counts[f]
        current_count  == prior_attempts + 1
    IN [a EXCEPT !.no_diff_counts[f] = current_count,
                 !.fixes_applied =
                      IF current_count >= MAX_NO_DIFF_RETRIES
                      THEN Append(@, FixRecord(f, "Failed", "no change generated"))
                      ELSE @,
                 !.files_failed_before =
                      IF current_count >= MAX_NO_DIFF_RETRIES THEN @ \cup {f} ELSE @,
                 !.attempt[f] = Attempt(why, prior_attempts)]

\* Body of the `for failure in failures` loop of fix_generator_node.
\* a = [fixes_applied, files_failed_before, no_diff_counts, wc, attempt]
fix_one_failure(a, f, in) ==
    IF skip_blacklisted(a, f)
    THEN [a EXCEPT !.attempt[f] = Attempt("skipped", a.no_diff_counts[f])]
    ELSE IF a.wc[f] = Absent
    THEN file_not_found(a, f)
    ELSE
      LET file_content  == a.wc[f]
          targeted      == generate_targeted_fix(file_content, in.tg)
          fall_back     == ~in.line_positive \/ targeted = file_content
          fixed_content == IF fall_back THEN generate_fix(file_content, in.ff)
                           ELSE targeted
      IN IF in.io_error THEN fix_exception(a, f)
         ELSE IF fixed_content # file_content THEN apply_fix(a, f, fixed_content)
         ELSE no_diff(a, f, IF in.ff.kind = "error" THEN "no_diff_llm_error"
                            ELSE IF in.ff.kind = "empty" THEN "no_diff_empty"
                            ELSE "no_diff_same")

\* The `for failure in failures` loop from index i on: every accumulator
\* the loop can end with, over the inputs of the remaining iterations.
RECURSIVE fix_loop(_, _, _, _)
fix_loop(s, a, failures, i) ==
    IF i > Len(failures) THEN {a}
    ELSE UNION { fix_loop(s, fix_one_failure(a, failures[i], in), failures, i + 1) :
                   in \in FixInputsAt(s, a.wc[failures[i]]) }

\* fix_generator_agent.py
fix_generator_node ==
    /\ pc = "generate_fixes"
    /\ LET a0 == [fixes_applied       |-> state.fixes_applied,
                  files_failed_before |-> state.files_failed_before,
                  no_diff_counts      |-> state.no_diff_counts,
                  wc                  |-> wc,
                  attempt             |-> NoAttempts]
       IN \E a \in fix_loop(state, a0, state.failures, 1) :
            /\ state' = [state EXCEPT !.fixes_applied = a.fixes_applied,
                                      !.files_failed_before = a.files_failed_before,
                                      !.no_diff_counts = a.no_diff_counts]
            /\ wc' = a.wc
            /\ attempt' = a.attempt
    /\ pc' = "commit_and_push"
    /\ UNCHANGED <<cfg, no_workflow, raised_in>>
    /\ stream_update

\* ------------------------------------------------------ config-fix path

\* config_fix_agent.py, steps 2-4 in order: the files this pass looks for.
config_wanted(s) ==
    IF s.test_exit_class = "NO_TESTS_COLLECTED"
    THEN <<"pytest.ini", "requirements.txt", "app/tests.py">>
    ELSE <<"pytest.ini", "requirements.txt">>

RECURSIVE ConfigRecords(_)
ConfigRecords(created) ==
    IF created = << >> THEN << >>
    ELSE <<FixRecord(Head(created), "Fixed", "config")>> \o ConfigRecords(Tail(created))

ThereAt(s, unknown) == IF Eventful(s) THEN SUBSET unknown ELSE {unknown}
GeneratedAt(s) == IF Eventful(s) THEN 0..MaxGenerated ELSE {0}

\* config_fix_node appending the test deps to requirements.txt on every pass.
config_fix_node_repatching ==
    /\ pc = "apply_config_fix"
    /\ LET wanted == config_wanted(state)
           looked == {wanted[i] : i \in DOMAIN wanted}
       IN \E there \in ThereAt(state, looked \ cfg) :
            LET created == SelectSeq(wanted, LAMBDA c : \/ c = "requirements.txt"
                                                        \/ c \notin cfg \cup there)
            IN \/ /\ state' = [state EXCEPT
                                  !.fixes_applied = @ \o ConfigRecords(created),
                                  !.config_fix_changed = (Len(created) > 0)]
                  /\ cfg' = cfg \cup looked
                  /\ pc' = after_config_fix(state')
                  /\ UNCHANGED raised_in
               \/ /\ "app/tests.py" \in looked \ (cfg \cup there)
                  /\ cfg' = cfg \cup (looked \ {"app/tests.py"})
                  /\ pc' = "RAISED"
                  /\ raised_in' = "apply_config_fix"
                  /\ UNCHANGED state
    /\ UNCHANGED <<wc, no_workflow, attempt>>
    /\ stream_update

\* config_fix_agent.py.  `cfg` holds the scaffolding known to be in place;
\* for a path not in it the repository as cloned decides, at the first look,
\* whether it is already there (`there`) or gets written now.  Writing
\* <app>/tests.py raises when the app directory does not exist
\* (open(..., "w") is not guarded).
config_fix_node ==
    /\ pc = "apply_config_fix"
    /\ LET wanted == config_wanted(state)
           looked == {wanted[i] : i \in DOMAIN wanted}
       IN \E there \in ThereAt(state, looked \ cfg) :
            LET created == SelectSeq(wanted, LAMBDA c : c \notin cfg \cup there)
            IN \/ /\ state' = [state EXCEPT
                                  !.fixes_applied = @ \o ConfigRecords(created),
                                  !.config_fix_changed = (Len(created) > 0)]
                  /\ cfg' = cfg \cup looked
                  /\ pc' = after_config_fix(state')
                  /\ UNCHANGED raised_in
               \/ /\ "app/tests.py" \in looked \ (cfg \cup there)
                  /\ cfg' = cfg \cup (looked \ {"app/tests.py"})
                  /\ pc' = "RAISED"
                  /\ raised_in' = "apply_config_fix"
                  /\ UNCHANGED state
    /\ UNCHANGED <<wc, no_workflow, attempt>>
    /\ stream_update

\* agent_graph.py _reinstall_deps_node
reinstall_deps_node ==
    /\ pc = "reinstall_deps"
    /\ pc' = should_generate_tests(state)
    /\ UNCHANGED <<state, wc, cfg, no_workflow, attempt, raised_in>>
    /\ stream_update

\* graph node generate_tests
generate_tests_node ==
    /\ pc = "generate_tests"
    /\ \E n \in GeneratedAt(state) : state' = test_generator_node(state, n)
    /\ pc' = "commit_and_push"
    /\ UNCHANGED <<wc, cfg, no_workflow, attempt, raised_in>>
    /\ stream_update

\* ------------------------------------------------------- commit and CI

\* commit_agent.py + git_tools.commit_and_push.  Whether the repository is
\* dirty (is_dirty() or untracked files: caches, installed packages, written
\* fixes) and whether the remote accepts the push are read from the
\* environment.  Any exception inside commit_and_push, the rejected push
\* included, reaches commit_node's except branch.
CommitOutcomes == {"pushed", "nothing to commit", "Push rejected", "git error"}
CommitOutcomesAt(s) ==
    IF Eventful(s) THEN CommitOutcomes ELSE CommitOutcomes \ {"nothing to commit"}

\* commit_node counting a pushed commit twice.
commit_node_counting_twice ==
    /\ pc = "commit_and_push"
    /\ \E o \in CommitOutcomesAt(state) :
         state' = CASE o = "pushed" ->
                         [state EXCEPT !.commit_count = @ + 2,
                                       !.push_succeeded = TRUE]
                    [] o = "nothing to commit" ->
                         [state EXCEPT !.push_succeeded = FALSE]
                    [] OTHER ->
                         [state EXCEPT !.push_succeeded = FALSE,
                                       !.error_message = o]
    /\ attempt' = NoAttempts
    /\ pc' = should_monitor_cicd(state')
    /\ UNCHANGED <<wc, cfg, no_workflow, raised_in>>
    /\ stream_update

\* commit_node returning the state as it came when there is nothing to commit.
commit_node_stale_push ==
    /\ pc = "commit_and_push"
    /\ \E o \in CommitOutcomesAt(state) :
         state' = CASE o = "pushed" ->
                         [state EXCEPT !.commit_count = @ + 1,
                                       !.push_succeeded = TRUE]
                    [] o = "nothing to commit" -> state
                    [] OTHER ->
                         [state EXCEPT !.push_succeeded = FALSE,
                                       !.error_message = o]
    /\ attempt' = NoAttempts
    /\ pc' = should_monitor_cicd(state')
    /\ UNCHANGED <<wc, cfg, no_workflow, raised_in>>
    /\ stream_update

commit_node ==
    /\ pc = "commit_and_push"
    /\ \E o \in CommitOutcomesAt(state) :
         state' = CASE o = "pushed" ->
                         [state EXCEPT !.commit_count = @ + 1,
                                       !.push_succeeded = TRUE]
                    [] o = "nothing to commit" ->
                         [state EXCEPT !.push_succeeded = FALSE]
                    [] OTHER ->
                         [state EXCEPT !.push_succeeded = FALSE,
                                       !.error_message = o]
    /\ attempt' = NoAttempts
    /\ pc' = should_monitor_cicd(state')
    /\ UNCHANGED <<wc, cfg, no_workflow, raised_in>>
    /\ stream_update

CICDEntry(it, st) == [iteration |-> it, status |-> st]

\* github_api_tools.py poll_workflow_status: the cache short-circuits to
\* SKIPPED; two empty polls return SKIPPED and fill the cache.
PollResults == {"PASSED", "FAILED", "TIMEOUT", "SKIPPED"}
\* The poll without the no-workflow cache: every call asks GitHub again.
PollResultsAt_uncached(s) ==
    IF Eventful(s) THEN PollResults ELSE {"PASSED", "FAILED"}

PollResultsAt(s) ==
    IF no_workflow THEN {"SKIPPED"}
    ELSE IF Eventful(s) THEN PollResults ELSE {"PASSED", "FAILED"}

\* cicd_monitor_agent.py
cicd_monitor_node ==
    /\ pc = "monitor_cicd"
    /\ \E r \in PollResultsAt(state) :
         /\ no_workflow' = (no_workflow \/ r = "SKIPPED")
         /\ LET ci_status == IF r = "TIMEOUT" THEN "FAILED" ELSE r
            IN state' = [state EXCEPT
                           !.ci_cd_status = ci_status,
                           !.ci_cd_timeline = Append(@, CICDEntry(state.iteration, ci_status))]
    /\ pc' = after_cicd(state')
    /\ UNCHANGED <<wc, cfg, attempt, raised_in>>
    /\ stream_update

\* _skip_cicd_node leaving the timeline as it is.
skip_cicd_node_without_entry ==
    /\ pc = "skip_cicd"
    /\ state' = [state EXCEPT !.ci_cd_status = "FAILED"]
    /\ pc' = after_cicd(state')
    /\ UNCHANGED <<wc, cfg, no_workflow, attempt, raised_in>>
    /\ stream_update

\* agent_graph.py _skip_cicd_node
skip_cicd_node ==
    /\ pc = "skip_cicd"
    /\ state' = [state EXCEPT
                    !.ci_cd_status = "FAILED",
                    !.ci_cd_timeline = Append(@, CICDEntry(state.iteration, "SKIPPED"))]
    /\ pc' = after_cicd(state')
    /\ UNCHANGED <<wc, cfg, no_workflow, attempt, raised_in>>
    /\ stream_update

\* ------------------------------------------------------- retry / finalize

\* retry_increment_node counting a retry cycle twice.
retry_increment_node_adding_two ==
    /\ pc = "retry_increment"
    /\ state' = [state EXCEPT !.iteration = @ + 2,
                              !.config_fix_changed = FALSE]
    /\ pc' = "run_tests"
    /\ UNCHANGED <<wc, cfg, no_workflow, attempt, raised_in>>
    /\ stream_update

\* retry_increment_node also clearing the blacklist with the per-iteration flags.
retry_increment_node_clearing ==
    /\ pc = "retry_increment"
    /\ state' = [state EXCEPT !.iteration = @ + 1,
                              !.config_fix_changed = FALSE,
                              !.files_failed_before = {}]
    /\ pc' = "run_tests"
    /\ UNCHANGED <<wc, cfg, no_workflow, attempt, raised_in>>
    /\ stream_update

\* retry_increment_node leaving config_fix_changed as it is.
retry_increment_node_keeping_flag ==
    /\ pc = "retry_increment"
    /\ state' = [state EXCEPT !.iteration = @ + 1]
    /\ pc' = "run_tests"
    /\ UNCHANGED <<wc, cfg, no_workflow, attempt, raised_in>>
    /\ stream_update

\* retry_controller.py
retry_increment_node ==
    /\ pc = "retry_increment"
    /\ state' = [state EXCEPT !.iteration = @ + 1,
                              !.config_fix_changed = FALSE]
    /\ pc' = "run_tests"
    /\ UNCHANGED <<wc, cfg, no_workflow, attempt, raised_in>>
    /\ stream_update

\* results_schema.py ScoreBreakdown(): the field defaults.
ScoreBreakdown == [base |-> 100, speed_bonus |-> 0, efficiency_penalty |-> 0, final |-> 100]

\* calculate granting the speed bonus up to and including five minutes.
calculate_inclusive(time_taken, commit_count) ==
    LET speed_bonus   == IF time_taken <= 3000 THEN 10 ELSE 0
        extra_commits == IF commit_count - 20 > 0 THEN commit_count - 20 ELSE 0
        efficiency_penalty == -(extra_commits * 2)
    IN [ base               |-> 100,
         speed_bonus        |-> speed_bonus,
         efficiency_penalty |-> efficiency_penalty,
         final              |-> 100 + speed_bonus + efficiency_penalty ]

\* results_schema.py ScoreBreakdown.calculate.  time_taken is in tenths of a
\* second (300 s = 3000); Python integers do not overflow.
calculate(time_taken, commit_count) ==
    LET speed_bonus   == IF time_taken < 3000 THEN 10 ELSE 0
        extra_commits == IF commit_count - 20 > 0 THEN commit_count - 20 ELSE 0
        efficiency_penalty == -(extra_commits * 2)
    IN [ base               |-> 100,
         speed_bonus        |-> speed_bonus,
         efficiency_penalty |-> efficiency_penalty,
         final              |-> 100 + speed_bonus + efficiency_penalty ]

\* finalize_node counting every fix record, applied or not, as a fix.
finalize_kwargs_counting_all_records(s) ==
    [ total_failures  |-> Len(s.failures),
      total_fixes     |-> Len(s.fixes_applied),
      ci_cd_status    |-> IF s.error_message # "" THEN "FAILED"
                          ELSE IF s.test_exit_class = "PASSED" THEN "PASSED"
                          ELSE s.ci_cd_status,
      iterations_used |-> s.iteration,
      commit_count    |-> s.commit_count,
      fixes           |-> s.fixes_applied,
      ci_cd_timeline  |-> s.ci_cd_timeline ]

\* finalize_node looking at the local test outcome before the fatal error.
finalize_kwargs_local_pass_first(s) ==
    [ total_failures  |-> Len(s.failures),
      total_fixes     |-> Len(SelectSeq(s.fixes_applied, LAMBDA r : r.status = "Fixed")),
      ci_cd_status    |-> IF s.test_exit_class = "PASSED" THEN "PASSED"
                          ELSE IF s.error_message # "" THEN "FAILED"
                          ELSE s.ci_cd_status,
      iterations_used |-> s.iteration,
      commit_count    |-> s.commit_count,
      fixes           |-> s.fixes_applied,
      ci_cd_timeline  |-> s.ci_cd_timeline ]

\* retry_controller.py finalize_node, lines 54-95: the values handed to the
\* AgentResults constructor.
finalize_kwargs(s) ==
    [ total_failures  |-> Len(s.failures),
      total_fixes     |-> Len(SelectSeq(s.fixes_applied, LAMBDA r : r.status = "Fixed")),
      ci_cd_status    |-> IF s.error_message # "" THEN "FAILED"
                          ELSE IF s.test_exit_class = "PASSED" THEN "PASSED"
                          ELSE s.ci_cd_status,
      iterations_used |-> s.iteration,
      commit_count    |-> s.commit_count,
      fixes           |-> s.fixes_applied,
      ci_cd_timeline  |-> s.ci_cd_timeline ]

\* retry_controller.py finalize_node.  The keyword list of the AgentResults
\* call reads state["team_name"], a key main.py's initial_state does not
\* have, and omits `commit_message`, which results_schema.AgentResults
\* declares without a default: the call raises before `results` is
\* assigned, so the node returns no state and the graph run ends with
\* the exception.
finalize_node ==
    /\ pc = "finalize"
    /\ pc' = "RAISED"
    /\ raised_in' = "finalize"
    /\ UNCHANGED <<state, wc, cfg, no_workflow, attempt>>
    /\ stream_update

\* ------------------------------------------------------- environment

\* The working copy lives in /tmp/<run_id>/repo and is handed to test
\* subprocesses (run_tests, cwd=repo_path) whose descendants are not
\* reaped on timeout; a path can disappear between two nodes.
EnvRemoveFile ==
    /\ pc \notin {"clone_repo", "RAISED", "DONE", "CANCELLED"}
    /\ Eventful(state)
    /\ \E f \in Present : wc' = [wc EXCEPT ![f] = Absent]
    /\ UNCHANGED <<pc, state, cfg, no_workflow, attempt, raised_in>>
    /\ UNCHANGED <<prev, status, results, api, calc, runs>>

\* One node of the graph executes.
Step ==
    \/ repo_clone_node
    \/ dep_install_node
    \/ test_discovery_node
    \/ test_runner_node
    \/ code_analysis_node
    \/ config_fix_node
    \/ reinstall_deps_node
    \/ generate_tests_node
    \/ fix_generator_node
    \/ commit_node
    \/ cicd_monitor_node
    \/ skip_cicd_node
    \/ retry_increment_node
    \/ finalize_node

\* main.py run_agent_pipeline, `except Exception`: an exception out of the
\* graph run marks the run record FAILED; the task ends.
run_agent_pipeline_except ==
    /\ pc = "RAISED"
    /\ pc' = "DONE"
    /\ status' = "FAILED"
    /\ UNCHANGED <<state, wc, cfg, no_workflow, attempt, raised_in, prev, results, api>>
    /\ UNCHANGED <<calc, runs>>

\* The answer of POST /api/resume/{run_id} to a request with body `approve`.
ResumeAnswer(approve, code) ==
    [op |-> "resume", approve |-> approve, code |-> code, cancelled |-> FALSE]

\* resume_agent without the status check of line 358.
resume_agent_unchecked ==
    \E approve \in BOOLEAN :
        /\ api' = ResumeAnswer(approve, 200)
        /\ status' = IF approve THEN "RUNNING" ELSE "REJECTED"
        /\ UNCHANGED <<pc, state, wc, cfg, no_workflow, attempt, raised_in, prev, results>>
        /\ UNCHANGED <<calc, runs>>

\* main.py resume_agent: a run that is not AWAITING_APPROVAL is answered
\* with HTTP 400 and nothing else happens.  Otherwise a rejection sets the
\* record REJECTED and resume_agent_pipeline returns without running the
\* graph; an approval starts resume_agent_pipeline, which sets the record
\* RUNNING before it streams the rest of the graph run.
resume_agent ==
    \E approve \in BOOLEAN :
        /\ IF status # "AWAITING_APPROVAL"
           THEN /\ api' = ResumeAnswer(approve, 400)
                /\ UNCHANGED status
           ELSE /\ api' = ResumeAnswer(approve, 200)
                /\ status' = IF approve THEN "RUNNING" ELSE "REJECTED"
        /\ UNCHANGED <<pc, state, wc, cfg, no_workflow, attempt, raised_in, prev, results>>
        /\ UNCHANGED <<calc, runs>>

\* The answer of POST /api/stop/{run_id}; `cancelled` tells the two messages
\* of the response apart.
StopAnswer(cancelled) ==
    [op |-> "stop", approve |-> FALSE, code |-> 200, cancelled |-> cancelled]

\* stop_agent that marks the record but sends no cancellation to the task.
stop_agent_without_cancel ==
    /\ api' = StopAnswer(pc \notin {"DONE", "CANCELLED"})
    /\ status' = "ABORTED"
    /\ UNCHANGED <<pc, state, wc, cfg, no_workflow, attempt, raised_in, prev, results>>
    /\ UNCHANGED <<calc, runs>>

\* stop_agent that cancels the task but leaves the run record as it is.
stop_agent_unmarked ==
    /\ api' = StopAnswer(pc \notin {"DONE", "CANCELLED"})
    /\ pc' = IF pc \in {"DONE", "CANCELLED"} THEN pc ELSE "CANCELLED"
    /\ UNCHANGED <<state, wc, cfg, no_workflow, attempt, raised_in, prev, status, results>>
    /\ UNCHANGED <<calc, runs>>

\* main.py stop_agent.  The handler has no await, so it runs between two
\* steps of the pipeline task.  A task that is still in active_runs and not
\* done is cancelled: CancelledError is thrown into run_agent_pipeline at the
\* await it is suspended in (inside astream), its handler re-raises without
\* touching the record, and no further node is dispatched; the node running
\* in the executor thread at that moment returns into a closed stream.  The
\* record is set ABORTED whether or not a task was cancelled, and the run id
\* leaves active_runs.
stop_agent ==
    /\ api' = StopAnswer(pc \notin {"DONE", "CANCELLED"})
    /\ pc' = IF pc \in {"DONE", "CANCELLED"} THEN pc ELSE "CANCELLED"
    /\ status' = "ABORTED"
    /\ UNCHANGED <<state, wc, cfg, no_workflow, attempt, raised_in, prev, results>>
    /\ UNCHANGED <<calc, runs>>

\* The pipeline task of one run.
Pipeline == Step \/ run_agent_pipeline_except

Next == Pipeline \/ EnvRemoveFile

Spec == Init /\ [][Next]_vars

\* LangGraph dispatches the next node as soon as the previous one returned,
\* and the task runs its handler when the graph run raised.
FairSpec == Spec /\ WF_vars(Pipeline)

\* The run together with the API requests a client can send on its run id.
ApiNext == Next \/ resume_agent \/ stop_agent

ApiSpec == Init /\ [][ApiNext]_vars

\* ------------------------------------------------ functions on their own

\* The main variables of a specification that runs no pipeline.
NoPipeline ==
    /\ pc = "none"
    /\ state = initial_state(FALSE)
    /\ wc = [f \in Files |-> Absent]
    /\ cfg = {}
    /\ no_workflow = FALSE
    /\ attempt = NoAttempts
    /\ raised_in = ""
    /\ prev = ""
    /\ status = "none"
    /\ results = NoResults
    /\ api = NoRequest

\* Values ci_cd_status takes: main.py's PENDING, cicd_monitor_node's
\* PASSED / FAILED / SKIPPED.
CiStatuses == {"PENDING", "PASSED", "FAILED", "SKIPPED"}

\* States handed to finalize_node: any last test outcome, any last CI
\* status, with and without a fatal error.
FinalizeInputs ==
    { [initial_state(FALSE) EXCEPT !.returncode = rc,
                                   !.test_exit_class = EXIT_CODE_CLASS(rc),
                                   !.ci_cd_status = st,
                                   !.error_message = e] :
        rc \in ReturnCodes, st \in CiStatuses, e \in {"", "Push rejected"} }

\* Durations in tenths of a second around the five-minute mark.
Durations == {0, 2000, 2999, 3000, 3001, 6000}

\* States handed to the router after analyze_failures: code_analysis_node
\* leaves `failures` empty after exit codes 0, 4 and 5.
RouterInputs ==
    { s \in { [initial_state(m) EXCEPT !.returncode = rc,
                                       !.test_exit_class = EXIT_CODE_CLASS(rc),
                                       !.failures = fs,
                                       !.tests_generated = tg,
                                       !.iteration = it,
                                       !.files_failed_before = bl] :
                m \in BOOLEAN, tg \in BOOLEAN, it \in 1..2, bl \in SUBSET Files,
                rc \in ReturnCodes, fs \in DistinctSeqs(Files) } :
        s.returncode \in {0, 4, 5} => s.failures = << >> }

CalcInputs ==
    { [fn |-> "finalize_node", done |-> FALSE, in |-> s] : s \in FinalizeInputs }
    \cup { [fn |-> "calculate", done |-> FALSE, time_taken |-> t, commit_count |-> c] :
             t \in Durations, c \in 0..MaxCommitCount }
    \cup { [fn |-> "has_fixable_failures", done |-> FALSE, a |-> a, b |-> b] :
             a \in RouterInputs, b \in RouterInputs }

PureInit ==
    /\ NoPipeline
    /\ runs = NoRuns
    /\ calc \in CalcInputs

\* finalize_node up to the AgentResults call.
call_finalize_node ==
    /\ calc.fn = "finalize_node"
    /\ ~calc.done
    /\ calc' = [fn |-> calc.fn, done |-> TRUE, in |-> calc.in,
                out |-> finalize_kwargs(calc.in)]
    /\ UNCHANGED <<pc, state, wc, cfg, no_workflow, attempt, raised_in, prev,
                   status, results, api, runs>>

\* finalize_node, lines 60-61: score = ScoreBreakdown(); score.calculate(...)
call_calculate ==
    /\ calc.fn = "calculate"
    /\ ~calc.done
    /\ calc' = [fn |-> calc.fn, done |-> TRUE,
                time_taken |-> calc.time_taken, commit_count |-> calc.commit_count,
                out |-> calculate(calc.time_taken, calc.commit_count)]
    /\ UNCHANGED <<pc, state, wc, cfg, no_workflow, attempt, raised_in, prev,
                   status, results, api, runs>>

\* The router applied to two states.
call_has_fixable_failures ==
    /\ calc.fn = "has_fixable_failures"
    /\ ~calc.done
    /\ calc' = [fn |-> calc.fn, done |-> TRUE, a |-> calc.a, b |-> calc.b,
                out |-> <<has_fixable_failures(calc.a), has_fixable_failures(calc.b)>>]
    /\ UNCHANGED <<pc, state, wc, cfg, no_workflow, attempt, raised_in, prev,
                   status, results, api, runs>>

PureNext == call_finalize_node \/ call_calculate \/ call_has_fixable_failures

PureSpec == PureInit /\ [][PureNext]_vars

\* ------------------------------------------------ runs side by side

\* Values of uuid.uuid4(); each call returns one no earlier call returned.
Uuids == 1..(MaxRuns + 1)

\* main.py run_agent: a new run record and pipeline task under a fresh
\* run_id; run_agent_pipeline uses the run_id as the thread_id of the
\* checkpointer.
run_agent(i) ==
    /\ runs.run[i].run_id = 0
    /\ \E id \in Uuids :
         /\ \A j \in Slots : runs.run[j].run_id # id
         /\ runs' = [runs EXCEPT !.run[i].run_id = id,
                                 !.run[i].pc = "clone_repo",
                                 !.threads = @ \cup {<<id, i>>}]
    /\ UNCHANGED <<pc, state, wc, cfg, no_workflow, attempt, raised_in, prev,
                   status, results, api, calc>>

\* repo_clone_node cloning every run into one directory.
runs_repo_clone_node_shared_path(i) ==
    /\ runs.run[i].pc = "clone_repo"
    /\ LET repo_path == <<"/tmp", "repo">>
       IN runs' = [runs EXCEPT !.run[i].repo_local_path = repo_path,
                               !.run[i].pc = "install_deps",
                               !.threads = @ \cup {<<runs.run[i].run_id, i>>},
                               !.dirs = @ \cup {<<repo_path, i>>}]
    /\ UNCHANGED <<pc, state, wc, cfg, no_workflow, attempt, raised_in, prev,
                   status, results, api, calc>>

\* repo_clone_agent.py, lines 25-32 and 72-75: the working copy is
\* /tmp/<run_id>/repo; the returned state, repo_local_path included, goes to
\* the checkpoint of the run's thread.
runs_repo_clone_node(i) ==
    /\ runs.run[i].pc = "clone_repo"
    /\ LET repo_path == <<"/tmp", runs.run[i].run_id, "repo">>
       IN runs' = [runs EXCEPT !.run[i].repo_local_path = repo_path,
                               !.run[i].pc = "install_deps",
                               !.threads = @ \cup {<<runs.run[i].run_id, i>>},
                               !.dirs = @ \cup {<<repo_path, i>>}]
    /\ UNCHANGED <<pc, state, wc, cfg, no_workflow, attempt, raised_in, prev,
                   status, results, api, calc>>

\* The nodes after the clone: each works in state["repo_local_path"] and
\* returns its state to the checkpoint of the run's thread.
runs_node(i) ==
    /\ runs.run[i].pc \in {"install_deps", "discover_tests", "run_tests"}
    /\ runs' = [runs EXCEPT
                  !.run[i].pc = CASE @ = "install_deps" -> "discover_tests"
                                  [] @ = "discover_tests" -> "run_tests"
                                  [] OTHER -> "DONE",
                  !.threads = @ \cup {<<runs.run[i].run_id, i>>},
                  !.dirs = @ \cup {<<runs.run[i].repo_local_path, i>>}]
    /\ UNCHANGED <<pc, state, wc, cfg, no_workflow, attempt, raised_in, prev,
                   status, results, api, calc>>

RunsInit ==
    /\ NoPipeline
    /\ calc = NoCalc
    /\ runs = NoRuns

RunsNext == \E i \in Slots : run_agent(i) \/ runs_repo_clone_node(i) \/ runs_node(i)

RunsSpec == RunsInit /\ [][RunsNext]_vars

\* ------------------------------------------------------------ properties

\* Nodes whose exception is not caught inside the node: the stage call does
\* not return and the graph run ends without reaching finalize.
UnguardedStages == {"clone_repo", "apply_config_fix"}

\* The step is one execution of fix_generator_node.
FixPass == pc = "generate_fixes" /\ pc' = "commit_and_push"

\* Records of fixes_applied that name file f.
RecordsFor(s, f) == SelectSeq(s.fixes_applied, LAMBDA r : r.file = f)

\* C1: in every reachable state `iteration` is at least 1 and at most
\* MAX_ITERATIONS, no step decreases it, and the iterations_used value
\* finalize_node hands to the result is at most MAX_ITERATIONS.
C1_IterationBounded ==
    /\ [](/\ state.iteration \in 1..MAX_ITERATIONS
          /\ finalize_kwargs(state).iterations_used <= MAX_ITERATIONS)
    /\ [][state'.iteration >= state.iteration]_vars

\* C1 witness: finalize has run in the last iteration of the budget.
C1_Witness ==
    /\ raised_in = "finalize"
    /\ state.iteration = MAX_ITERATIONS
    /\ finalize_kwargs(state).iterations_used = MAX_ITERATIONS

\* C2: when every stage call returns, the run eventually executes finalize
\* and stops; the only other way a run ends is a stage call that raised.
C2_EventuallyFinalizes ==
    <>(pc = "RAISED" /\ (raised_in = "finalize" \/ raised_in \in UnguardedStages))

\* C2 witness: finalize ran after the retry cycle was taken as often as the
\* budget allows.
C2_Witness ==
    /\ pc = "RAISED"
    /\ raised_in = "finalize"
    /\ state.iteration = MAX_ITERATIONS
    /\ Len(state.ci_cd_timeline) = MAX_ITERATIONS

\* C3: once error_message is non-empty the next stage is never run_tests,
\* generate_fixes, apply_config_fix, commit_and_push or retry_increment:
\* only skip_cicd and finalize remain, finalize does run, and no step
\* increments `iteration`.
C3_FatalErrorStops ==
    /\ [](state.error_message # "" =>
             /\ pc \in {"skip_cicd", "finalize", "RAISED", "DONE"}
             /\ raised_in \in {"", "finalize"})
    /\ [][state.error_message # "" =>
             /\ state'.iteration = state.iteration
             /\ state'.error_message = state.error_message]_vars

\* C3 witness: a push error ended the run at finalize with budget left.
C3_Witness ==
    /\ state.error_message # ""
    /\ raised_in = "finalize"
    /\ state.iteration < MAX_ITERATIONS

\* C4: a fix_generator_node pass leaves every file that was blacklisted
\* before it untouched: same content on disk, no new fix record for it, same
\* no-diff counter, also when the file is in `failures` again.
C4_BlacklistedNotAttempted ==
    [][FixPass =>
         \A f \in state.files_failed_before :
            /\ wc'[f] = wc[f]
            /\ RecordsFor(state', f) = RecordsFor(state, f)
            /\ state'.no_diff_counts[f] = state.no_diff_counts[f]
            /\ attempt'[f].did \in {"none", "skipped"}]_vars

\* C4 witness: a pass met a blacklisted file in `failures` and skipped it.
C4_Witness ==
    \E f \in Files :
        /\ pc = "commit_and_push"
        /\ attempt[f].did = "skipped"
        /\ f \in state.files_failed_before
        /\ \E i \in DOMAIN state.failures : state.failures[i] = f

\* C5: every blacklisted path has a no-diff counter that reached
\* MAX_NO_DIFF_RETRIES; nothing is blacklisted for another reason.
C5_BlacklistOnlyAtThreshold ==
    \A f \in state.files_failed_before :
        state.no_diff_counts[f] >= MAX_NO_DIFF_RETRIES

NoDiffKinds == {"no_diff_llm_error", "no_diff_empty", "no_diff_same"}

\* Records of fixes_applied that report the no-diff threshold for f.
ThresholdRecordsFor(s, f) ==
    SelectSeq(s.fixes_applied,
              LAMBDA r : r = FixRecord(f, "Failed", "no change generated"))

\* C6: a no-diff attempt that finds the counter at 0 sets it to 1, appends no
\* record and does not blacklist; nothing but a content-changing attempt
\* on f moves the counter before the next no-diff attempt, which sets it to
\* 2, blacklists f and appends the one threshold record f gets in the run.
C6_TwoNoDiffsBlacklistOnce ==
    /\ [](\A f \in Files :
            /\ Len(ThresholdRecordsFor(state, f)) <= 1
            /\ state.no_diff_counts[f] = MAX_NO_DIFF_RETRIES
                   => f \in state.files_failed_before)
    /\ [][\A f \in Files :
            LET nd      == FixPass /\ attempt'[f].did \in NoDiffKinds
                changed == FixPass /\ attempt'[f].did = "fixed"
                count   == state.no_diff_counts[f]
                count2  == state'.no_diff_counts[f]
            IN /\ (nd /\ count = 0) =>
                     /\ count2 = 1
                     /\ f \notin state'.files_failed_before
                     /\ RecordsFor(state', f) = RecordsFor(state, f)
               /\ (nd /\ count # 0) =>
                     /\ count = 1
                     /\ count2 = 2
                     /\ f \in state'.files_failed_before
                     /\ RecordsFor(state', f) =
                          Append(RecordsFor(state, f),
                                 FixRecord(f, "Failed", "no change generated"))
               /\ (~nd /\ ~changed) => count2 = count]_vars

\* C6 witness: the second no-diff attempt in a row has blacklisted f.
C6_Witness ==
    \E f \in Files :
        /\ pc = "commit_and_push"
        /\ attempt[f].did \in NoDiffKinds
        /\ attempt[f].prior = 1
        /\ state.no_diff_counts[f] = 2
        /\ f \in state.files_failed_before
        /\ Len(ThresholdRecordsFor(state, f)) = 1

\* C7: an attempt whose LLM calls errored out leaves the file's no-diff
\* counter and the blacklist as they were.
C7_TransientErrorKeepsCounter ==
    [][FixPass =>
         \A f \in Files :
            attempt'[f].did \in {"exception", "no_diff_llm_error"} =>
               /\ state'.no_diff_counts[f] = state.no_diff_counts[f]
               /\ (f \in state'.files_failed_before) = (f \in state.files_failed_before)]_vars

\* "Fixed" records of fixes_applied that name file f.
FixedFor(s, f) == SelectSeq(RecordsFor(s, f), LAMBDA r : r.status = "Fixed")

\* C8: when a fix_generator_node pass appends a "Fixed" record for f, the
\* state it returns has no_diff_counts[f] = 0.
C8_FixedResetsCounter ==
    [][FixPass =>
         \A f \in Files :
            Len(FixedFor(state', f)) > Len(FixedFor(state, f)) =>
               state'.no_diff_counts[f] = 0]_vars

\* C8 witness: a fix was applied to a file whose counter stood at 1.
C8_Witness ==
    \E f \in Files :
        /\ pc = "commit_and_push"
        /\ attempt[f].did = "fixed"
        /\ attempt[f].prior = 1
        /\ state.no_diff_counts[f] = 0

\* C9: no step of the run, retry_increment_node and finalize_node included,
\* removes a path from files_failed_before.
C9_BlacklistOnlyGrows ==
    [][state.files_failed_before \subseteq state'.files_failed_before]_vars

\* C9 witness: a file blacklisted in an early iteration is still blacklisted
\* when finalize has run in the last one.
C9_Witness ==
    /\ raised_in = "finalize"
    /\ state.iteration = MAX_ITERATIONS
    /\ state.files_failed_before # {}

\* C10: after analyze_failures classified the run PASSED the router selects
\* the approval gate or commit_and_push, not finalize.
C10_PassedGoesToCommit ==
    [][(pc = "analyze_failures" /\ state'.test_exit_class = "PASSED") =>
          pc' \in {"wait_for_approval", "commit_and_push"}]_vars

\* The step is one execution of graph node n.
Ran(n) == pc = n /\ pc' # n

\* Exit classes of a run whose tests ran and failed, or that was interrupted,
\* timed out, hit an internal error or ended with an unmapped code.
CodeOrUnknownFailure == {"TESTS_FAILED", "INTERRUPTED", "INTERNAL_ERROR", "UNKNOWN_EXIT"}

\* Exit classes of a collection error and of nothing collected.
ConfigFailure == {"COLLECTION_ERROR", "NO_TESTS_COLLECTED"}

C12_ConfigFailureGoesToConfigFix ==
    [][(Ran("analyze_failures") /\ state'.test_exit_class \in ConfigFailure)
          => /\ state'.failures = << >>
             /\ pc' = "apply_config_fix"]_vars

\* C12 witness: a config failure in a later iteration, with tests already
\* generated, was routed to apply_config_fix.
C12_Witness ==
    /\ prev = "analyze_failures"
    /\ pc = "apply_config_fix"
    /\ state.test_exit_class \in ConfigFailure
    /\ state.tests_generated
    /\ state.iteration > 1

\* C13 as claimed: whenever the router is evaluated after apply_config_fix
\* it selects reinstall_deps.
C13_ConfigFixGoesToReinstall ==
    [][(Ran("apply_config_fix") /\ pc' # "RAISED") => pc' = "reinstall_deps"]_vars

\* C13 amended: after apply_config_fix the router selects reinstall_deps
\* when the stage changed a file or tests_generated is false, and finalize
\* when nothing changed and tests were already generated.
C13_ConfigFixRouting ==
    [][(Ran("apply_config_fix") /\ pc' # "RAISED")
          => pc' = IF state'.config_fix_changed \/ ~state'.tests_generated
                   THEN "reinstall_deps" ELSE "finalize"]_vars

\* C13 witness: a config fix that changed nothing, with tests already
\* generated, was routed to finalize.
C13_Witness ==
    /\ prev = "apply_config_fix"
    /\ pc = "finalize"
    /\ ~state.config_fix_changed
    /\ state.tests_generated

\* C14: a cycle whose test run was classified as a config failure enters
\* the next run_tests with `iteration` unchanged.
C14_ConfigPathKeepsIteration ==
    [][(pc # "run_tests" /\ pc' = "run_tests" /\ state.test_exit_class \in ConfigFailure)
          => state'.iteration = state.iteration]_vars

\* C15: monitor_cicd follows commit_and_push exactly when that commit_node
\* pushed (it counted a commit and wrote push_succeeded true); otherwise
\* skip_cicd runs, sets ci_cd_status FAILED and does not touch the CI poller.
C15_MonitorOnlyAfterPush ==
    [][/\ Ran("commit_and_push") =>
            /\ (pc' = "monitor_cicd") = (state'.commit_count = state.commit_count + 1)
            /\ (pc' = "monitor_cicd") = state'.push_succeeded
            /\ pc' \in {"monitor_cicd", "skip_cicd"}
       /\ Ran("monitor_cicd") => (prev = "commit_and_push" /\ state.push_succeeded)
       /\ Ran("skip_cicd") =>
            /\ prev = "commit_and_push"
            /\ ~state.push_succeeded
            /\ state'.ci_cd_status = "FAILED"
            /\ no_workflow' = no_workflow]_vars

\* C15 witness: an earlier cycle pushed, this cycle's commit_node did not,
\* and skip_cicd ran.
C15_Witness ==
    /\ prev = "skip_cicd"
    /\ state.commit_count > 0
    /\ ~state.push_succeeded
    /\ state.ci_cd_status = "FAILED"
    /\ state.error_message = ""

\* C16: retry_increment_node adds 1 to `iteration`, sets config_fix_changed
\* false and changes no other field of the state, nor the working copy.
C16_RetryIncrementFrame ==
    [][Ran("retry_increment") =>
          /\ state' = [state EXCEPT !.iteration = state.iteration + 1,
                                    !.config_fix_changed = FALSE]
          /\ UNCHANGED <<wc, cfg, no_workflow>>]_vars

\* C16 witness: the first retry after a cycle whose config fix wrote files
\* and whose commit was pushed.
C16_Witness ==
    /\ prev = "retry_increment"
    /\ state.iteration = 2
    /\ ~state.config_fix_changed
    /\ \E i \in DOMAIN state.fixes_applied : state.fixes_applied[i].msg = "config"
    /\ state.commit_count = 1
    /\ Len(state.ci_cd_timeline) = 1

\* C17: a run whose local tests passed with no fatal error set ends with a
\* saved result whose iterations_used is the iteration of that test run
\* and whose ci_cd_status, copied to the run record, is PASSED.
C17_LocalPassEndsPassed ==
    (pc = "DONE" /\ state.test_exit_class = "PASSED" /\ state.error_message = "")
       => /\ results = [saved |-> TRUE,
                        iterations_used |-> state.iteration,
                        ci_cd_status |-> "PASSED"]
          /\ status = "PASSED"

\* C18: in approval mode, once the analysis of a passing test run is done the
\* run waits at the approval gate: the next node is wait_for_approval, no
\* later node has run, and the pipeline task leaves the record
\* AWAITING_APPROVAL.
C18_ApprovalModeSuspends ==
    (~state.auto_commit /\ state.test_exit_class = "PASSED" /\ prev # "run_tests")
       => /\ pc = "wait_for_approval"
          /\ prev = "analyze_failures"
          /\ status \in {"RUNNING", "AWAITING_APPROVAL"}

\* C19: a rejection sent to a run in approval mode whose local tests passed
\* (the run the approval gate holds) ends the run REJECTED with its
\* commit_count unchanged.
C19_RejectEndsRejected ==
    [][(/\ api' # api
        /\ api'.op = "resume"
        /\ ~api'.approve
        /\ ~state.auto_commit
        /\ state.test_exit_class = "PASSED"
        /\ prev # "run_tests")
          => /\ status' = "REJECTED"
             /\ state'.commit_count = state.commit_count
             /\ pc' # "commit_and_push"]_vars

\* C20: every run that has stopped has executed finalize_node.
C20_EveryStopFinalizes ==
    pc = "DONE" => (prev = "finalize" \/ raised_in = "finalize")

\* The statuses a finished run may carry.
TerminalStatus == {"PASSED", "FAILED", "ABORTED", "REJECTED"}

C24_FixesAppendOnly ==
    [][/\ Len(state.fixes_applied) <= Len(state'.fixes_applied)
       /\ SubSeq(state'.fixes_applied, 1, Len(state.fixes_applied))
             = state.fixes_applied]_vars

\* C24 witness: records of three different stages (generated test, config
\* file, source fix) are in the list.
C24_Witness ==
    /\ \E i \in DOMAIN state.fixes_applied : state.fixes_applied[i].status = "Generated"
    /\ \E i \in DOMAIN state.fixes_applied : state.fixes_applied[i].msg = "config"
    /\ \E i \in DOMAIN state.fixes_applied : state.fixes_applied[i].file \in Files

\* C25: a stop request that cancels the task leaves no node to be dispatched
\* and does not touch the commits made; after it no node executes and the
\* graph state stays as it was.
C25_NoStageAfterCancel ==
    [][/\ (api' # api /\ api'.op = "stop" /\ api'.cancelled)
            => /\ pc' = "CANCELLED"
               /\ state' = state
       /\ pc = "CANCELLED"
            => /\ pc' = "CANCELLED"
               /\ prev' = prev
               /\ state' = state]_vars

\* C25 witness: a run cancelled after it pushed a commit, before its next node.
C25_Witness ==
    /\ pc = "CANCELLED"
    /\ api.op = "stop"
    /\ api.cancelled
    /\ prev = "commit_and_push"
    /\ state.commit_count > 0

\* C26: from a stop request that cancelled the task on, the run record is
\* ABORTED after every step.
C26_AbortedStays ==
    [][((api' # api /\ api'.op = "stop" /\ api'.cancelled)
           \/ (api.op = "stop" /\ api.cancelled)
           \/ pc = "CANCELLED")
          => status' = "ABORTED"]_vars

\* C26 witness: a run cancelled in mid-flight that got a resume request
\* afterwards.
C26_Witness ==
    /\ pc = "CANCELLED"
    /\ status = "ABORTED"
    /\ prev = "run_tests"
    /\ api.op = "resume"

\* C27: a resume request on a run that is not AWAITING_APPROVAL is answered
\* 400 and changes neither the record nor the task nor the graph state.
C27_ResumeNotApplicable ==
    [][(api' # api /\ api'.op = "resume" /\ status # "AWAITING_APPROVAL")
          => /\ api'.code = 400
             /\ UNCHANGED <<pc, state, wc, cfg, no_workflow, attempt,
                            raised_in, prev, status, results>>]_vars

\* C27 witness: an approval refused while the run is between two nodes.
C27_Witness ==
    /\ api = ResumeAnswer(TRUE, 400)
    /\ pc = "generate_fixes"
    /\ status = "RUNNING"

\* C29: a pass of config_fix_node that finds everything it looks for already
\* handled by an earlier pass writes nothing, returns, reports
\* config_fix_changed false and appends no record.
C29_ConfigFixIdempotent ==
    [][(/\ Ran("apply_config_fix")
        /\ \A i \in DOMAIN config_wanted(state) : config_wanted(state)[i] \in cfg)
          => /\ cfg' = cfg
             /\ pc' # "RAISED"
             /\ ~state'.config_fix_changed
             /\ state'.fixes_applied = state.fixes_applied]_vars

\* C29 witness: a second pass after a nothing-collected outcome, the first
\* pass having written files.
C29_Witness ==
    /\ prev = "apply_config_fix"
    /\ state.iteration > 1
    /\ state.test_exit_class = "NO_TESTS_COLLECTED"
    /\ ConfigFiles \subseteq cfg
    /\ ~state.config_fix_changed
    /\ \E i \in DOMAIN state.fixes_applied : state.fixes_applied[i].msg = "config"

\* C22: with the fatal-error field set, the ci_cd_status finalize_node
\* computes is FAILED, whatever the last CI status and the last local test
\* outcome are.
C22_ErrorOverridesStatus ==
    (calc.fn = "finalize_node" /\ calc.done /\ calc.in.error_message # "")
       => calc.out.ci_cd_status = "FAILED"

\* C22 witness: a fatal error on a state whose local tests passed and whose
\* last CI status is PASSED.
C22_Witness ==
    /\ calc.fn = "finalize_node"
    /\ calc.done
    /\ calc.in.error_message # ""
    /\ calc.in.test_exit_class = "PASSED"
    /\ calc.in.ci_cd_status = "PASSED"
    /\ calc.out.ci_cd_status = "FAILED"

\* C23: calculate yields base 100, speed_bonus 10 below 300 s and 0 from
\* 300 s on, efficiency_penalty -2 per commit over 20, and final as their
\* sum; 25 commits in 200 s give 100.
C23_ScoreFormula ==
    (calc.fn = "calculate" /\ calc.done)
       => LET t == calc.time_taken
              c == calc.commit_count
              over == IF c > 20 THEN c - 20 ELSE 0
          IN /\ calc.out.base = 100
             /\ calc.out.speed_bonus = (IF t < 3000 THEN 10 ELSE 0)
             /\ calc.out.efficiency_penalty = 0 - 2 * over
             /\ calc.out.final
                  = calc.out.base + calc.out.speed_bonus + calc.out.efficiency_penalty
             /\ (t = 2000 /\ c = 25) => calc.out.final = 100
             /\ t = 3000 => calc.out.speed_bonus = 0

\* C23 witness: exactly 300 s with more than 20 commits.
C23_Witness ==
    /\ calc.fn = "calculate"
    /\ calc.done
    /\ calc.time_taken = 3000
    /\ calc.commit_count = 25
    /\ calc.out.final = 90

C30_RunsIsolated ==
    /\ \A t, u \in runs.threads : t[1] = u[1] => t[2] = u[2]
    /\ \A d, e \in runs.dirs : d[1] = e[1] => d[2] = e[2]

\* C30 witness: every slot holds a run that has cloned and is at run_tests.
C30_Witness ==
    /\ \A i \in Slots : runs.run[i].pc = "run_tests"
    /\ Cardinality(runs.dirs) = MaxRuns
    /\ Cardinality(runs.threads) = MaxRuns

\* The classes of the outcome policy that are neither a pass, a configuration
\* failure nor a code failure.
UnknownFailure == {"INTERRUPTED", "INTERNAL_ERROR", "UNKNOWN_EXIT"}

\* C31: once a test run has been classified, the class follows the exit
\* signal: 0 gives PASSED, 4 and 5 give a configuration failure, 1 gives the
\* code failure, every other signal gives an unknown failure, and the class
\* is PASSED exactly when the run passed (run_tests: passed = returncode 0).
C31_ClassifierPolicy ==
    state.test_exit_class # "" =>
      /\ (state.returncode = 0) <=> (state.test_exit_class = "PASSED")
      /\ (state.returncode \in {4, 5}) <=> (state.test_exit_class \in ConfigFailure)
      /\ (state.returncode = 1) <=> (state.test_exit_class = "TESTS_FAILED")
      /\ (state.returncode \notin {0, 1, 4, 5})
           <=> (state.test_exit_class \in UnknownFailure)

\* C31 witness: the test run timed out (or the runner did not start) and the
\* classifier has answered with the unknown class.
C31_Witness ==
    /\ prev = "run_tests"
    /\ state.returncode = -1
    /\ state.test_exit_class = "UNKNOWN_EXIT"

\* C32: the values finalize_node computes for the result agree with the run
\* state it reads: iterations_used and commit_count are the state's,
\* total_fixes counts the "Fixed" records, total_failures is the length of
\* the last analysis' failures, and both trails are the state's sequences,
\* entry by entry.
C32_ResultAgreesWithState ==
    (pc = "RAISED" /\ raised_in = "finalize") =>
      LET out == finalize_kwargs(state)
      IN /\ out.iterations_used = state.iteration
         /\ out.commit_count = state.commit_count
         /\ out.total_fixes
              = Cardinality({i \in DOMAIN state.fixes_applied :
                               state.fixes_applied[i].status = "Fixed"})
         /\ out.total_failures = Len(state.failures)
         /\ Len(out.fixes) = Len(state.fixes_applied)
         /\ \A i \in DOMAIN out.fixes : out.fixes[i] = state.fixes_applied[i]
         /\ Len(out.ci_cd_timeline) = Len(state.ci_cd_timeline)
         /\ \A i \in DOMAIN out.ci_cd_timeline :
              out.ci_cd_timeline[i] = state.ci_cd_timeline[i]

\* C32 witness: finalize_node has run on a state of a later iteration with a
\* commit, an applied and a failed fix record, failures left over and a CI
\* timeline.
C32_Witness ==
    /\ pc = "RAISED"
    /\ raised_in = "finalize"
    /\ state.iteration > 1
    /\ state.commit_count > 0
    /\ state.failures # << >>
    /\ state.ci_cd_timeline # << >>
    /\ \E i, j \in DOMAIN state.fixes_applied :
         /\ state.fixes_applied[i].status = "Fixed"
         /\ state.fixes_applied[j].status = "Failed"
    /\ finalize_kwargs(state).total_fixes < Len(finalize_kwargs(state).fixes)

\* C33: the first test run is entered from discover_tests with iteration 1,
\* every later one from retry_increment, which has added exactly 1; no other
\* step changes `iteration`, so the n-th test run runs with iteration n, one
\* retry_increment lies between two consecutive test runs, and no test run
\* happens beyond MAX_ITERATIONS.
C33_OneIncrementPerCycle ==
    /\ [][(pc' = "run_tests" /\ pc # "run_tests") =>
            \/ pc = "discover_tests" /\ state'.iteration = 1
            \/ /\ pc = "retry_increment"
               /\ prev # "retry_increment"
               /\ state'.iteration = state.iteration + 1]_vars
    /\ [][pc # "retry_increment" => state'.iteration = state.iteration]_vars
    /\ [][Ran("retry_increment") => pc' = "run_tests"]_vars
    /\ [][Ran("run_tests") => state.iteration \in 1..MAX_ITERATIONS]_vars

\* C33 witness: the test run of the last iteration of the budget has been
\* entered from retry_increment.
C33_Witness ==
    /\ pc = "run_tests"
    /\ prev = "retry_increment"
    /\ state.iteration = MAX_ITERATIONS

\* C34: commit_node adds exactly 1 to commit_count when the commit was pushed
\* and nothing otherwise, push_succeeded is true after it exactly when the
\* count grew, and the fatal-error field is set by a rejected push and by
\* nothing else.
C34_CountFlagAndFatalOnlyOnRejectedPush ==
    [][Ran("commit_and_push") =>
         /\ state'.commit_count \in {state.commit_count, state.commit_count + 1}
         /\ state'.push_succeeded <=> (state'.commit_count = state.commit_count + 1)
         /\ state'.error_message # state.error_message
              => state'.error_message = "Push rejected"]_vars

\* C35: when the ci_cd_status finalize_node computes is PASSED, no fatal
\* error is set and either the latest local test run passed or the latest
\* timeline entry is a PASSED report of cicd_monitor_node made in the current
\* iteration, that is, after the latest test run.
C35_NoFalseSuccess ==
    (pc = "RAISED" /\ raised_in = "finalize"
       /\ finalize_kwargs(state).ci_cd_status = "PASSED") =>
      /\ state.error_message = ""
      /\ \/ state.test_exit_class = "PASSED"
         \/ /\ state.ci_cd_timeline # << >>
            /\ state.ci_cd_timeline[Len(state.ci_cd_timeline)]
                 = CICDEntry(state.iteration, "PASSED")

\* C35 witness: a run of a later iteration whose local tests failed ends as
\* PASSED on the CI report of that iteration.
C35_Witness ==
    /\ pc = "RAISED"
    /\ raised_in = "finalize"
    /\ state.iteration > 1
    /\ state.test_exit_class = "TESTS_FAILED"
    /\ finalize_kwargs(state).ci_cd_status = "PASSED"
    /\ state.ci_cd_timeline[Len(state.ci_cd_timeline)]
         = CICDEntry(state.iteration, "PASSED")

\* C36: in every reachable state commit_count <= iteration <= MAX_ITERATIONS,
\* so for every duration the score computed from the run's commit_count has
\* efficiency_penalty 0 and final 100 or 110.
C36_CommitsWithinIterations ==
    /\ state.commit_count <= state.iteration
    /\ state.iteration <= MAX_ITERATIONS
    /\ \A t \in Durations :
         /\ calculate(t, state.commit_count).efficiency_penalty = 0
         /\ calculate(t, state.commit_count).final \in {100, 110}

\* C36 witness: a run that pushed a commit in every iteration of the budget
\* has reached finalize.
C36_Witness ==
    /\ raised_in = "finalize"
    /\ state.commit_count = MAX_ITERATIONS
    /\ state.iteration = MAX_ITERATIONS
    /\ calculate(0, state.commit_count).final = 110
    /\ calculate(3000, state.commit_count).final = 100

\* A step of one of the two stages that follow commit_and_push.
CiStage == Ran("monitor_cicd") \/ Ran("skip_cicd")

\* C37: after every commit_and_push stage exactly one of monitor_cicd and
\* skip_cicd runs and appends one timeline entry tagged with the current
\* iteration; no other step changes the timeline; the entries' iteration
\* values are strictly increasing and the timeline is never longer than
\* `iteration`.
C37_OneTimelineEntryPerCommit ==
    /\ [](/\ Len(state.ci_cd_timeline) <= state.iteration
          /\ \A i, j \in DOMAIN state.ci_cd_timeline :
               i < j => state.ci_cd_timeline[i].iteration
                          < state.ci_cd_timeline[j].iteration)
    /\ [][Ran("commit_and_push") => pc' \in {"monitor_cicd", "skip_cicd"}]_vars
    /\ [][(pc' \in {"monitor_cicd", "skip_cicd"} /\ pc' # pc)
             => pc = "commit_and_push"]_vars
    /\ [][CiStage =>
            /\ Len(state'.ci_cd_timeline) = Len(state.ci_cd_timeline) + 1
            /\ SubSeq(state'.ci_cd_timeline, 1, Len(state.ci_cd_timeline))
                 = state.ci_cd_timeline
            /\ state'.ci_cd_timeline[Len(state'.ci_cd_timeline)].iteration
                 = state.iteration
            /\ pc' \in {"retry_increment", "finalize"}]_vars
    /\ [][~CiStage => state'.ci_cd_timeline = state.ci_cd_timeline]_vars

\* C37 witness: a timeline with an entry of monitor_cicd from the first
\* iteration and an entry of skip_cicd from the second.
C37_Witness ==
    /\ prev = "skip_cicd"
    /\ Len(state.ci_cd_timeline) = 2
    /\ state.ci_cd_timeline[1] = CICDEntry(1, "FAILED")
    /\ state.ci_cd_timeline[2] = CICDEntry(2, "SKIPPED")
    /\ state.iteration = 2

\* C38: every no-diff counter is 0, 1 or 2 in every reachable state, a file
\* whose counter is at the threshold is blacklisted, and a repair pass leaves
\* the counter of a blacklisted file as it found it.
C38_CounterWithinThreshold ==
    /\ [](\A f \in Files :
            /\ state.no_diff_counts[f] \in 0..MAX_NO_DIFF_RETRIES
            /\ state.no_diff_counts[f] = MAX_NO_DIFF_RETRIES
                 => f \in state.files_failed_before)
    /\ [][FixPass =>
            \A f \in state.files_failed_before :
              state'.no_diff_counts[f] = state.no_diff_counts[f]]_vars

\* C38 witness: a repair pass has met a failing file whose counter stands at
\* the threshold and skipped it.
C38_Witness ==
    \E f \in Files :
      /\ prev = "generate_fixes"
      /\ state.no_diff_counts[f] = MAX_NO_DIFF_RETRIES
      /\ f \in state.files_failed_before
      /\ attempt[f] = Attempt("skipped", MAX_NO_DIFF_RETRIES)

\* Once the run's repository and branch are known to have no workflow:
\* every monitor_cicd reports SKIPPED and ci_cd_status is never PASSED.
SkippedStays ==
    /\ [](no_workflow => state.ci_cd_status # "PASSED")
    /\ [][(no_workflow /\ Ran("monitor_cicd")) =>
            /\ state'.ci_cd_status = "SKIPPED"
            /\ state'.ci_cd_timeline[Len(state'.ci_cd_timeline)]
                 = CICDEntry(state.iteration, "SKIPPED")
            /\ no_workflow']_vars

\* C39 as claimed: after a SKIPPED report every later monitoring reports
\* SKIPPED, and the run enters finalize only after a passing local test run,
\* with a fatal error, or with the iteration budget used up.
C39_SkippedThenThreeStops ==
    /\ SkippedStays
    /\ [][(no_workflow /\ pc # "finalize" /\ pc' = "finalize") =>
            \/ pc = "analyze_failures" /\ state'.test_exit_class = "PASSED"
            \/ /\ pc \in {"monitor_cicd", "skip_cicd"}
               /\ \/ state'.error_message # ""
                  \/ state'.iteration >= MAX_ITERATIONS]_vars

\* C39 amended: after a SKIPPED report every later monitoring reports
\* SKIPPED and the CI-passed trigger never fires; the run enters finalize
\* after a passing local test run, with a fatal error, with the budget used
\* up, or, once tests were generated, after a failed test run with no
\* failure extracted or a config fix that changed nothing; otherwise it ends
\* only by a stage call that raised.
C39_SkippedThenNoCiStop ==
    /\ SkippedStays
    /\ [][(no_workflow /\ pc # "finalize" /\ pc' = "finalize") =>
            \/ pc = "analyze_failures" /\ state'.test_exit_class = "PASSED"
            \/ /\ pc \in {"monitor_cicd", "skip_cicd"}
               /\ state'.ci_cd_status # "PASSED"
               /\ \/ state'.error_message # ""
                  \/ state'.iteration >= MAX_ITERATIONS
            \/ /\ pc = "analyze_failures"
               /\ state'.test_exit_class \in CodeOrUnknownFailure
               /\ state'.failures = << >>
               /\ state'.tests_generated
            \/ /\ pc = "apply_config_fix"
               /\ ~state'.config_fix_changed
               /\ state'.tests_generated]_vars
    /\ [][(no_workflow /\ pc' = "RAISED" /\ pc # "RAISED")
            => (pc = "finalize" \/ pc \in UnguardedStages)]_vars

\* C39 witness: monitor_cicd reported SKIPPED in two iterations, and the run
\* then entered finalize from the analysis of a failed test run.
C39_Witness ==
    /\ no_workflow
    /\ state.ci_cd_status = "SKIPPED"
    /\ Len(state.ci_cd_timeline) >= 2
    /\ \A i \in DOMAIN state.ci_cd_timeline : state.ci_cd_timeline[i].status = "SKIPPED"
    /\ prev = "analyze_failures"
    /\ pc = "finalize"
    /\ state.test_exit_class \in CodeOrUnknownFailure

\* C40: once the pipeline task has ended with the record PASSED, FAILED or
\* REJECTED, no later request on the run id changes the recorded status or
\* the recorded results.
C40_TerminalStatusStable ==
    [][(pc = "DONE" /\ status \in {"PASSED", "FAILED", "REJECTED"})
          => (status' = status /\ results' = results)]_vars

====
